---- MODULE Spec2Model ----
(***************************************************************************)
(* Date resolution of gantt.py: the calendar (NOT_WORKED_DAYS, VACATIONS), *)
(* Task.start_date / Task.end_date with their caches, and _reset_coord.    *)
(*                                                                         *)
(* A date is a day number: day 0 is a Monday, so date.weekday() is d % 7   *)
(* (0: Monday ... 6: Sunday).  datetime.date has a bounded range; here it  *)
(* is 0..DateMax, and date arithmetic leaving it raises OverflowError.     *)
(* An optional value is a sequence: <<>> is None, <<v>> is the value v.    *)
(***************************************************************************)
EXTENDS Integers, Sequences, FiniteSets, TLC

VARIABLES
  NOT_WORKED_DAYS,    \* global list of days off, used as a set of weekdays
  VACATIONS,          \* global list of vacation dates, used as a set
  tasks,              \* the Task objects: kind, start, stop, duration, depends_of
  cache_start_date,   \* Task.cache_start_date of every object
  cache_end_date,     \* Task.cache_end_date of every object
  calendar_changes,   \* how many times the calendar was changed
  resources,          \* Task.resources of every object: None or a list
  unavailable,        \* the dates on which each resource is not available
  project_tasks,      \* Project.tasks of every Project: its members in order
  cache_nb_elements,  \* Project.cache_nb_elements of every Project
  stack,              \* the calls in progress when a query is followed step
                      \*   by step: the frames, the innermost last
  last                \* the most recent call: operation, object, result (val or
                      \*   exc), diagnostics (log), whether it found its cache
                      \*   set (hit) and whether it repeats the call before (again)

vars == <<NOT_WORKED_DAYS, VACATIONS, tasks, cache_start_date, cache_end_date,
          calendar_changes, resources, unavailable, project_tasks,
          cache_nb_elements, stack, last>>

\* What the date queries and the calendar leave alone.
assignments == <<resources, unavailable, project_tasks, cache_nb_elements, stack>>

(***************************************************************************)
(* Bounds of the model.                                                    *)
(***************************************************************************)
DateMax == 27          \* last representable date (four weeks: days 0..27)
NTasks == 3            \* objects 1..NTasks; the last one is the task under study
FirstAnchor == 4       \* literal start/stop dates are FirstAnchor..LastAnchor
LastAnchor == 7        \*   (Friday, Saturday, Sunday, Monday)
MaxDuration == 2       \* durations are 0..MaxDuration
MaxCalendarChanges == 1 \* calendar mutations in one run
NResources == 2        \* resources 1..NResources
NProjects == 3         \* Projects 1..NProjects
MaxMembers == 4        \* add_task calls in one run

None == <<>>
Some(v) == <<v>>
Val(x) == x[1]

TaskIds == 1..NTasks
ResourceIds == 1..NResources
ProjectIds == 1..NProjects
AnchorDays == FirstAnchor..LastAnchor

(***************************************************************************)
(* Calendar.                                                               *)
(***************************************************************************)
Weekday(d) == d % 7

\* NotWorked without the vacations.
NotWorked_WeekdaysOnly(d) == Weekday(d) \in NOT_WORKED_DAYS

\* "d.weekday() in _not_worked_days() or d in VACATIONS"
NotWorked(d) == Weekday(d) \in NOT_WORKED_DAYS \/ d \in VACATIONS

\* "while NotWorked(start): start = start + timedelta(days=1)"
RECURSIVE RollForward(_)
RollForward(d) ==
  IF ~NotWorked(d) THEN Some(d)
  ELSE IF d + 1 > DateMax THEN None
  ELSE RollForward(d + 1)

\* "while NotWorked(real_end): real_end -= timedelta(days=1)"
RECURSIVE RollBackward(_)
RollBackward(d) ==
  IF ~NotWorked(d) THEN Some(d)
  ELSE IF d - 1 < 0 THEN None
  ELSE RollBackward(d - 1)

\* ForwardCount that does not count the day it starts on.
RECURSIVE ForwardCount_FromNextDay(_, _)
ForwardCount_FromNextDay(current_day, duration) ==
  IF duration > 0 \/ NotWorked(current_day)
  THEN IF current_day + 1 > DateMax THEN None
       ELSE ForwardCount_FromNextDay(current_day + 1,
                                     IF NotWorked(current_day) THEN duration
                                     ELSE duration - 1)
  ELSE Some(current_day)

\* The forward loop of end_date: from current_day, with `duration` days left.
RECURSIVE ForwardCount(_, _)
ForwardCount(current_day, duration) ==
  IF duration > 1 \/ NotWorked(current_day)
  THEN IF current_day + 1 > DateMax THEN None
       ELSE ForwardCount(current_day + 1,
                         IF NotWorked(current_day) THEN duration ELSE duration - 1)
  ELSE Some(current_day)

\* BackwardCount that returns the day before the last one it counted.
RECURSIVE BackwardCount_OneMore(_, _, _)
BackwardCount_OneMore(stop, real_duration, duration) ==
  IF duration > 0
  THEN IF stop - (real_duration + 1) < 0 THEN None
       ELSE BackwardCount_OneMore(stop, real_duration + 1,
                                  IF NotWorked(stop - real_duration)
                                  THEN duration ELSE duration - 1)
  ELSE Some(stop - real_duration)

\* The backward loop of start_date (stop and duration fixed).
RECURSIVE BackwardCount(_, _, _)
BackwardCount(stop, real_duration, duration) ==
  IF duration > 0
  THEN IF stop - (real_duration + 1) < 0 THEN None
       ELSE BackwardCount(stop, real_duration + 1,
                          IF NotWorked(stop - real_duration)
                          THEN duration ELSE duration - 1)
  ELSE IF stop - (real_duration - 1) > DateMax THEN None
  ELSE Some(stop - (real_duration - 1))

(***************************************************************************)
(* A call in progress: the caches and diagnostics so far, and the pending  *)
(* exception ("" when none).  A call returns [c |-> context, val |-> v].   *)
(***************************************************************************)
Context == [cs |-> cache_start_date, ce |-> cache_end_date, log |-> {}, exc |-> ""]
Return(c, v) == [c |-> c, val |-> v]
Raise(c, e) == [c |-> [c EXCEPT !.exc = e], val |-> None]
Log(c, tag, t) == [c EXCEPT !.log = @ \cup {<<tag, t>>}]

IsMilestone(t) == tasks[t].kind = "Milestone"


(***************************************************************************)
(* Task.start_date and Task.end_date.  They call each other through the    *)
(* dependency list, and write the caches of every object they resolve.     *)
(***************************************************************************)
RECURSIVE start_date(_, _), end_date(_, _), call_end_date(_, _), DepLoop(_, _, _, _, _)

\* The three update rules of prev_task_end inside "for t in self.depends_of",
\* for a dependency ending on e.
\* PrevCase2 with > for >=.
PrevCase2_Strict(milestone, e, prev) ==
  IF e > prev THEN (IF milestone THEN e ELSE e + 1) ELSE prev

PrevCase2(milestone, e, prev) ==
  IF e >= prev THEN (IF milestone THEN e ELSE e + 1) ELSE prev

\* PrevCase4 that keeps the end of the first dependency.
PrevCase4_KeepFirst(milestone, e, prev) == prev

PrevCase4(milestone, e, prev) ==
  IF e > prev THEN (IF milestone THEN e - 1 ELSE e) ELSE prev

PrevCase5(milestone, e, prev) ==
  IF e > prev THEN e ELSE prev

PrevRule(rule, milestone, e, prev) ==
  CASE rule = "case2" -> PrevCase2(milestone, e, prev)
    [] rule = "case4" -> PrevCase4(milestone, e, prev)
    [] OTHER -> PrevCase5(milestone, e, prev)

\* One turn of "for t in self.depends_of": r is what t.end_date() answered.
DepLoopStep(rule, deps, i, prev, r) ==
  IF r.c.exc # "" THEN r
  ELSE LET np == PrevRule(rule, IsMilestone(deps[i]), Val(r.val), prev) IN
       IF np > DateMax \/ np < 0 THEN Raise(r.c, "OverflowError")
       ELSE DepLoop(rule, deps, i + 1, np, r.c)

\* "for t in self.depends_of: ..." from position i on, prev_task_end = prev.
DepLoop(rule, deps, i, prev, c) ==
  IF i > Len(deps) THEN Return(c, Some(prev))
  ELSE DepLoopStep(rule, deps, i, prev, call_end_date(deps[i], c))

\* The loop entered with prev_task_end = r, the end of the first dependency.
DepLoopAfterFirst(rule, deps, r) ==
  IF r.c.exc # "" THEN r ELSE DepLoop(rule, deps, 1, Val(r.val), r.c)

\* "prev_task_end = self.depends_of[0].end_date()" and then the loop.
DepLoopFromFirst(rule, deps, c) ==
  IF Len(deps) = 0 THEN Raise(c, "IndexError")
  ELSE DepLoopAfterFirst(rule, deps, call_end_date(deps[1], c))

\* depends_of is None, a list Some(l), or -- after add_depends gave a single
\* object to a Task that had None -- that object itself, which is no list.
Object(i) == <<i, "object">>

IsList(depends_of) == Len(depends_of) = 1

\* "for t in self.depends_of": an object that is no list cannot be iterated.
ForDepends(rule, depends_of, prev, c) ==
  IF IsList(depends_of) THEN DepLoop(rule, Val(depends_of), 1, prev, c)
  ELSE Raise(c, "TypeError")

\* "self.depends_of[0]": an object that is no list cannot be indexed.
FirstDepends(rule, depends_of, c) ==
  IF IsList(depends_of) THEN DepLoopFromFirst(rule, Val(depends_of), c)
  ELSE Raise(c, "TypeError")

\* StartCase1 that caches the literal start and returns the moved one.
StartCase1_CacheLiteral(t, c) ==
  LET self == tasks[t]
      start == RollForward(Val(self.start))
  IN IF start = None THEN Raise(c, "OverflowError")
     ELSE LET c1 == IF Val(start) > Val(self.start)
                    THEN Log(c, "warning_vacations", t) ELSE c
          IN Return([c1 EXCEPT !.cs[t] = self.start], start)

\* start set, depends_of None.
StartCase1(t, c) ==
  LET self == tasks[t]
      start == RollForward(Val(self.start))
  IN IF start = None THEN Raise(c, "OverflowError")
     ELSE LET c1 == IF Val(start) > Val(self.start)
                    THEN Log(c, "warning_vacations", t) ELSE c
          IN Return([c1 EXCEPT !.cs[t] = start], start)

\* start set, depends_of not None: after the loop (r), roll forward and cache.
StartCase2Roll(t, r) ==
  IF r.c.exc # "" THEN r
  ELSE LET prev_task_end == RollForward(Val(r.val)) IN
       IF prev_task_end = None THEN Raise(r.c, "OverflowError")
       ELSE LET c1 == IF Val(prev_task_end) > Val(tasks[t].start)
                      THEN Log(r.c, "warning_dependencies", t) ELSE r.c
            IN Return([c1 EXCEPT !.cs[t] = prev_task_end], prev_task_end)

\* start set, depends_of not None.
StartCase2(t, c) ==
  LET self == tasks[t]
      start == RollForward(Val(self.start))
  IN IF start = None THEN Raise(c, "OverflowError")
     ELSE StartCase2Roll(t, ForDepends("case2", self.depends_of, Val(start), c))

\* start None, duration None, depends_of not None: after the loop (r),
\* "if prev_task_end > current_day" with current_day = self.start.
StartCase3Compare(t, r) ==
  LET self == tasks[t]
      current_day == self.start
  IN IF r.c.exc # "" THEN r
     ELSE IF current_day = None THEN Raise(r.c, "TypeError")
     ELSE IF Val(r.val) > Val(current_day) THEN Return(r.c, r.c.cs[t])
     ELSE LET start == RollForward(Val(self.start)) IN
          IF start = None THEN Raise(r.c, "OverflowError")
          ELSE LET c1 == IF Val(start) > Val(current_day)
                         THEN Log(r.c, "error_on_time", t) ELSE r.c
               IN Return([c1 EXCEPT !.cs[t] = start], start)

\* start None, duration None ("start and stop fixed" in the source).
StartCase3(t, c) ==
  LET self == tasks[t] IN
  IF self.depends_of # None
  THEN StartCase3Compare(t, FirstDepends("case4", self.depends_of, c))
  ELSE Return([c EXCEPT !.cs[t] = self.start], self.start)

\* duration and dependencies: after the loop (r), the next working day.
StartCase4Roll(t, r) ==
  IF r.c.exc # "" THEN r
  ELSE IF Val(r.val) + 1 > DateMax THEN Raise(r.c, "OverflowError")
  ELSE LET start == RollForward(Val(r.val) + 1) IN
       IF start = None THEN Raise(r.c, "OverflowError")
       ELSE Return([r.c EXCEPT !.cs[t] = start], start)

\* start None, duration set, depends_of not None, stop None.
StartCase4(t, c) ==
  StartCase4Roll(t, FirstDepends("case4", tasks[t].depends_of, c))

\* stop and duration: after the loop (r), the start counted back from stop
\* (current_day) gives way to the dependencies.
StartCase5Pressure(t, current_day, r) ==
  IF r.c.exc # "" THEN r
  ELSE LET from == IF Val(r.val) > Val(current_day)
                   THEN Val(r.val) + 1 ELSE Val(current_day)
       IN IF from > DateMax THEN Raise(r.c, "OverflowError")
          ELSE LET depend_start_date == RollForward(from) IN
               IF depend_start_date = None THEN Raise(r.c, "OverflowError")
               ELSE LET c1 == IF Val(depend_start_date) > Val(current_day)
                              THEN Log(r.c, "error_on_time", t) ELSE r.c
                    IN Return([c1 EXCEPT !.cs[t] = depend_start_date],
                              depend_start_date)

\* start None, stop and duration set.
StartCase5(t, c) ==
  LET self == tasks[t]
      current_day == BackwardCount(Val(self.stop), 0, Val(self.duration))
  IN IF current_day = None THEN Raise(c, "OverflowError")
     ELSE IF self.depends_of # None
     THEN StartCase5Pressure(t, current_day,
                             FirstDepends("case5", self.depends_of, c))
     ELSE Return([c EXCEPT !.cs[t] = current_day], current_day)

\* The end of start_date, reached by the branches that do not return themselves.
StartTail(t, r) ==
  IF r.c.exc # "" THEN r
  ELSE LET c1 == IF r.c.cs[t] # tasks[t].start
                 THEN Log(r.c, "warning_start_changed", t) ELSE r.c
       IN Return(c1, c1.cs[t])

start_date(t, c) ==
  LET self == tasks[t] IN
  IF c.cs[t] # None THEN Return(c, c.cs[t])
  ELSE IF self.start # None
       THEN IF self.depends_of = None THEN StartCase1(t, c) ELSE StartCase2(t, c)
  ELSE IF self.duration = None THEN StartCase3(t, c)
  ELSE IF self.depends_of # None /\ self.stop = None THEN StartTail(t, StartCase4(t, c))
  ELSE IF self.stop # None THEN StartTail(t, StartCase5(t, c))
  ELSE StartTail(t, Return(c, None))

\* EndFromStopCheck that keeps the rolled-back stop whatever the start is.
EndFromStopCheck_KeepStop(t, real_end, r) ==
  IF r.c.exc # "" THEN r
  ELSE IF r.val = None THEN Raise(r.c, "TypeError")
  ELSE LET c1 == IF real_end # tasks[t].stop
                 THEN Log(r.c, "warning_end_changed", t) ELSE r.c
       IN Return([c1 EXCEPT !.ce[t] = real_end], real_end)

\* end_date, first branch, with real_end the stop rolled back and r what
\* self.start_date() answered.
EndFromStopCheck(t, real_end, r) ==
  LET self == tasks[t] IN
  IF r.c.exc # "" THEN r
  ELSE IF r.val = None THEN Raise(r.c, "TypeError")
  ELSE IF Val(real_end) <= Val(r.val)
  THEN IF self.duration = None THEN Raise(r.c, "TypeError")
       ELSE LET e == ForwardCount(Val(r.val), Val(self.duration)) IN
            IF e = None THEN Raise(r.c, "OverflowError")
            ELSE Return(Log([r.c EXCEPT !.ce[t] = e], "warning_end_changed", t), e)
  ELSE LET c1 == IF real_end # self.stop
                 THEN Log(r.c, "warning_end_changed", t) ELSE r.c
       IN Return([c1 EXCEPT !.ce[t] = real_end], real_end)

\* end_date, first branch: "duration is None or start is None and stop is not None".
EndFromStop(t, c) ==
  LET self == tasks[t] IN
  IF self.stop = None THEN Raise(c, "AttributeError")
  ELSE LET real_end == RollBackward(Val(self.stop)) IN
       IF real_end = None THEN Raise(c, "OverflowError")
       ELSE EndFromStopCheck(t, real_end, start_date(t, c))

\* end_date, second branch, with r what self.start_date() answered.
EndFromDurationCount(t, r) ==
  IF r.c.exc # "" THEN r
  ELSE IF r.val = None THEN Raise(r.c, "AttributeError")
  ELSE LET e == ForwardCount(Val(r.val), Val(tasks[t].duration)) IN
       IF e = None THEN Raise(r.c, "OverflowError")
       ELSE Return([r.c EXCEPT !.ce[t] = e], e)

\* end_date, second branch: "if self.stop is None".
EndFromDuration(t, c) == EndFromDurationCount(t, start_date(t, c))

end_date(t, c) ==
  LET self == tasks[t] IN
  IF c.ce[t] # None THEN Return(c, c.ce[t])
  ELSE IF self.duration = None \/ (self.start = None /\ self.stop # None)
       THEN EndFromStop(t, c)
  ELSE IF self.stop = None THEN EndFromDuration(t, c)
  ELSE Raise(c, "ValueError")

\* A Milestone is a point: it ends on the day it starts.
Milestone_end_date(t, c) == start_date(t, c)

\* "t.end_date()" on an object that is a Task or a Milestone.
call_end_date(t, c) ==
  IF IsMilestone(t) THEN Milestone_end_date(t, c) ELSE end_date(t, c)

(***************************************************************************)
(* Construction.                                                           *)
(***************************************************************************)
\* Task.__init__: the anchors as given; depends_of None or a list of objects.
Task(start, stop, duration, depends_of) ==
  [kind |-> "Task", start |-> start, stop |-> stop, duration |-> duration,
   depends_of |-> depends_of]

\* A Milestone is built from its date alone.
Milestone(start) ==
  [kind |-> "Milestone", start |-> start, stop |-> None, duration |-> None,
   depends_of |-> None]

\* Task.__init__ counts the anchors left None and logs an error unless exactly
\* one is None or duration and dependencies are both given.
nonecount(task) ==
  (IF task.start = None THEN 1 ELSE 0) + (IF task.stop = None THEN 1 ELSE 0)
    + (IF task.duration = None THEN 1 ELSE 0)

InitLogsError(task) ==
  nonecount(task) # 1 /\ (task.duration = None \/ task.depends_of = None)

Optional(S) == {None} \cup {Some(v) : v \in S}

\* The lists over the objects built before the last one, without repetition.
RECURSIVE ListsOver(_)
ListsOver(S) ==
  {<<>>} \cup UNION {{<<x>> \o l : l \in ListsOver(S \ {x})} : x \in S}

\* Objects 1..NTasks-1 can be depended on: a one-day Task or a Milestone on the
\* first or the last anchor day, or a one-day Task that follows the object
\* built just before it.
Basic ==
  {Task(Some(s), None, Some(1), None) : s \in {FirstAnchor, LastAnchor}}
    \cup {Milestone(Some(s)) : s \in {FirstAnchor, LastAnchor}}

Chained(i) == Task(None, None, Some(1), Some(<<i - 1>>))

ProvidersAt(i) == IF i > 1 THEN Basic \cup {Chained(i)} ELSE Basic

DefaultProvider == Task(Some(FirstAnchor), None, Some(1), None)

\* An order on the basic providers: the anchor day first, Tasks before Milestones.
Rank(p) == 2 * Val(p.start) + (IF p.kind = "Milestone" THEN 1 ELSE 0)

\* The last object is a Task with any anchors and any dependency list (with all
\* three anchors given, start and stop are the same day).
Subjects ==
  {s \in {Task(a, b, d, deps) :
            a \in Optional(AnchorDays), b \in Optional(AnchorDays),
            d \in Optional(0..MaxDuration),
            deps \in Optional(ListsOver(1..(NTasks - 1)))} :
     (s.start # None /\ s.stop # None /\ s.duration # None) => s.start = s.stop}

DependsOn(task, i) ==
  task.depends_of # None /\ \E k \in DOMAIN Val(task.depends_of) :
                               Val(task.depends_of)[k] = i

\* Object i is reached from the last object through the dependency lists.
RECURSIVE Needed(_, _)
Needed(ts, i) ==
  \E j \in (i + 1)..NTasks : DependsOn(ts[j], i) /\ (j = NTasks \/ Needed(ts, j))

\* The graphs of a run: objects nothing depends on are the default provider, and
\* two basic providers of the last object come in one order (its list has both).
Graphs ==
  {ts \in UNION {{[i \in TaskIds |-> IF i = NTasks THEN subject ELSE ps[i]] :
                    ps \in [1..(NTasks - 1) -> Basic \cup {Chained(i) : i \in 2..NTasks}]} :
                 subject \in Subjects} :
     /\ \A i \in 1..(NTasks - 1) : ts[i] \in ProvidersAt(i)
     /\ \A i \in 1..(NTasks - 1) : ~Needed(ts, i) => ts[i] = DefaultProvider
     /\ \A i, j \in 1..(NTasks - 1) :
          (i < j /\ DependsOn(ts[NTasks], i) /\ DependsOn(ts[NTasks], j)
             /\ ts[i] \in Basic /\ ts[j] \in Basic) => Rank(ts[i]) <= Rank(ts[j])}

VacationDays == {FirstAnchor, LastAnchor}

NoCall == [op |-> "none", task |-> 0, val |-> None, exc |-> "", log |-> {},
           hit |-> FALSE, again |-> FALSE]

\* Nothing resolved, the calendar as set up.
Unresolved ==
  /\ cache_start_date = [i \in TaskIds |-> None]
  /\ cache_end_date = [i \in TaskIds |-> None]
  /\ calendar_changes = 0
  /\ stack = <<>>
  /\ last = NoCall

\* Task(..., resources=None) for every object, and no resource on leave.
NoResources ==
  /\ resources = [i \in TaskIds |-> None]
  /\ unavailable = [r \in ResourceIds |-> {}]

\* Project(): no member, nothing counted.
NoMembers ==
  /\ project_tasks = [p \in ProjectIds |-> <<>>]
  /\ cache_nb_elements = [p \in ProjectIds |-> None]

\* After set-up: the default days off, at most one vacation day added, the
\* objects built.
Init ==
  /\ NOT_WORKED_DAYS = {5, 6}
  /\ VACATIONS \in {{}} \cup {{d} : d \in VacationDays}
  /\ tasks \in Graphs
  /\ Unresolved
  /\ NoResources
  /\ NoMembers

(***************************************************************************)
(* Operations.                                                             *)
(***************************************************************************)
\* What a call leaves behind: the caches it wrote and its result.
Called(op, t, hit, r) ==
  [op |-> op, task |-> t, val |-> r.val, exc |-> r.c.exc, log |-> r.c.log,
   hit |-> hit, again |-> (last.op = op /\ last.task = t /\ last.exc = "")]

\* The call has answered r: the caches it wrote stay, and it is the last call.
Answered(op, t, hit, r) ==
  /\ cache_start_date' = r.c.cs
  /\ cache_end_date' = r.c.ce
  /\ last' = Called(op, t, hit, r)

\* t.start_date()
DoStartDate(t) ==
  /\ Answered("start_date", t, cache_start_date[t] # None, start_date(t, Context))
  /\ UNCHANGED <<NOT_WORKED_DAYS, VACATIONS, tasks, calendar_changes, assignments>>

\* t.end_date()
DoEndDate(t) ==
  /\ Answered("end_date", t,
              IF IsMilestone(t) THEN cache_start_date[t] # None
              ELSE cache_end_date[t] # None,
              call_end_date(t, Context))
  /\ UNCHANGED <<NOT_WORKED_DAYS, VACATIONS, tasks, calendar_changes, assignments>>

\* t._reset_coord()
_reset_coord(t) ==
  /\ cache_start_date' = [cache_start_date EXCEPT ![t] = None]
  /\ cache_end_date' = [cache_end_date EXCEPT ![t] = None]
  /\ last' = [NoCall EXCEPT !.op = "_reset_coord", !.task = t]
  /\ UNCHANGED <<NOT_WORKED_DAYS, VACATIONS, tasks, calendar_changes, assignments>>

\* define_not_worked_days(list_of_days)
define_not_worked_days(list_of_days) ==
  /\ calendar_changes < MaxCalendarChanges
  /\ calendar_changes' = calendar_changes + 1
  /\ NOT_WORKED_DAYS' = list_of_days
  /\ last' = [NoCall EXCEPT !.op = "define_not_worked_days"]
  /\ UNCHANGED <<VACATIONS, tasks, cache_start_date, cache_end_date, assignments>>

\* add_vacations(start_date, end_date=None)
add_vacations(start, end) ==
  /\ calendar_changes < MaxCalendarChanges
  /\ calendar_changes' = calendar_changes + 1
  /\ VACATIONS' = VACATIONS \cup (IF end = None THEN {start} ELSE start..Val(end))
  /\ last' = [NoCall EXCEPT !.op = "add_vacations"]
  /\ UNCHANGED <<NOT_WORKED_DAYS, tasks, cache_start_date, cache_end_date, assignments>>

NotWorkedChoices == {{}, 0..6}

\* The queries and the reset, on a calendar fixed at set-up.
Next ==
  \/ \E t \in TaskIds : DoStartDate(t)
  \/ \E t \in TaskIds : DoEndDate(t)
  \/ \E t \in TaskIds : _reset_coord(t)

Spec == Init /\ [][Next]_vars


(***************************************************************************)
(* Task.check_conflicts_between_task_and_resources_vacations.              *)
(***************************************************************************)
\* Resource.is_available(date): the resource is not on leave that day.
is_available(r, cday) == cday \notin unavailable[r]

\* "while cday <= self.end_date(): ..." for one resource: the records appended.
RECURSIVE ConflictDays(_, _, _, _)
ConflictDays(t, r, cday, end) ==
  IF cday > end THEN <<>>
  ELSE (IF Weekday(cday) \notin NOT_WORKED_DAYS /\ ~is_available(r, cday)
        THEN <<[resource |-> r, date |-> cday, task |-> t]>> ELSE <<>>)
       \o ConflictDays(t, r, cday + 1, end)

RECURSIVE ConflictLoop(_, _, _, _, _)

\* One resource, with cday what self.start_date() and e what self.end_date()
\* answered.
ConflictLoopScan(t, rs, i, conflicts, cday, e) ==
  IF e.c.exc # "" THEN e
  ELSE IF cday = None \/ e.val = None THEN Raise(e.c, "TypeError")
  ELSE IF Val(cday) <= Val(e.val) /\ Val(e.val) = DateMax
       THEN Raise(e.c, "OverflowError")
  ELSE LET found == ConflictDays(t, rs[i], Val(cday), Val(e.val)) IN
       ConflictLoop(t, rs, i + 1, conflicts \o found,
                    IF found # <<>> THEN Log(e.c, "caution_resource", t) ELSE e.c)

\* One resource, with s what "cday = self.start_date()" answered.
ConflictLoopSpan(t, rs, i, conflicts, s) ==
  IF s.c.exc # "" THEN s
  ELSE ConflictLoopScan(t, rs, i, conflicts, s.val, call_end_date(t, s.c))

\* "for r in self.get_resources(): ..." from position i on.
ConflictLoop(t, rs, i, conflicts, c) ==
  IF i > Len(rs) THEN Return(c, conflicts)
  ELSE ConflictLoopSpan(t, rs, i, conflicts, start_date(t, c))

\* t.check_conflicts_between_task_and_resources_vacations()
check_conflicts_between_task_and_resources_vacations(t) ==
  /\ Answered("check_conflicts", t, FALSE,
              IF resources[t] = None THEN Return(Context, <<>>)
              ELSE ConflictLoop(t, Val(resources[t]), 1, <<>>, Context))
  /\ UNCHANGED <<NOT_WORKED_DAYS, VACATIONS, tasks, calendar_changes, assignments>>

\* The tasks checked for conflicts: a start or none, a duration or none.
ConflictSubjects ==
  {Task(a, None, d, None) : a \in Optional(AnchorDays), d \in Optional(1..MaxDuration)}

\* The days a resource may be on leave: the first anchor day and the day after
\* it, or the last anchor day.
LeaveChoices == {{}, {FirstAnchor, FirstAnchor + 1}, {LastAnchor}}

\* The resource lists given to the task under study.
ResourceLists == {None, Some(<<>>)} \cup {Some(<<1>>), Some(<<NResources, 1>>)}

InitConflicts ==
  /\ NOT_WORKED_DAYS = {5, 6}
  /\ VACATIONS \in {{}} \cup {{d} : d \in VacationDays}
  /\ tasks \in {[i \in TaskIds |-> IF i = NTasks THEN subject ELSE DefaultProvider] :
                  subject \in ConflictSubjects}
  /\ Unresolved
  /\ resources \in {[i \in TaskIds |-> IF i = NTasks THEN rs ELSE None] :
                      rs \in ResourceLists}
  /\ unavailable \in [ResourceIds -> LeaveChoices]
  /\ NoMembers

NextConflicts ==
  \/ \E t \in TaskIds : check_conflicts_between_task_and_resources_vacations(t)
  \/ \E t \in TaskIds : _reset_coord(t)

SpecConflicts == InitConflicts /\ [][NextConflicts]_vars

(***************************************************************************)
(* Project: members, nb_elements, get_tasks.                               *)
(***************************************************************************)
\* A member of a Project is a Task (or Milestone) or a Project.
TaskMember(t) == [project |-> FALSE, id |-> t]
ProjectMember(p) == [project |-> TRUE, id |-> p]

\* How many members the Projects of P have, all together.
RECURSIVE NbMembers(_)
NbMembers(P) ==
  IF P = {} THEN 0
  ELSE LET p == CHOOSE q \in P : TRUE
       IN Len(project_tasks[p]) + NbMembers(P \ {p})

\* What can be added to Project p: any Task, any Project built after p.
MembersFor(p) ==
  {TaskMember(t) : t \in TaskIds} \cup {ProjectMember(q) : q \in (p + 1)..NProjects}

\* Project.add_task(task).  A Project receives Tasks and Projects built after
\* it, so that no Project contains itself.
add_task(p, member) ==
  /\ NbMembers(ProjectIds) < MaxMembers
  /\ project_tasks' = [project_tasks EXCEPT ![p] = Append(@, member)]
  /\ cache_nb_elements' = [cache_nb_elements EXCEPT ![p] = None]
  /\ last' = [NoCall EXCEPT !.op = "add_task", !.task = p]
  /\ UNCHANGED <<NOT_WORKED_DAYS, VACATIONS, tasks, cache_start_date,
                 cache_end_date, calendar_changes, resources, unavailable, stack>>

\* Project.nb_elements and Task.nb_elements; a call carries the memoized counts
\* and returns [cache |-> counts, val |-> n].
RECURSIVE nb_elements(_, _), NbLoop(_, _, _, _)

\* "nb += t.nb_elements()" with r what the member answered.
NbLoopStep(p, i, nb, r) == NbLoop(p, i + 1, nb + r.val, r.cache)

\* "for t in self.tasks: ..." from position i on, then the count is memoized.
NbLoop(p, i, nb, cache) ==
  IF i > Len(project_tasks[p])
  THEN [cache |-> [cache EXCEPT ![p] = Some(nb)], val |-> nb]
  ELSE NbLoopStep(p, i, nb,
                  IF project_tasks[p][i].project
                  THEN nb_elements(project_tasks[p][i].id, cache)
                  ELSE [cache |-> cache, val |-> 1])

nb_elements(p, cache) ==
  IF cache[p] # None THEN [cache |-> cache, val |-> Val(cache[p])]
  ELSE NbLoop(p, 1, 0, cache)

\* An element of a list being flattened: an object, or a list of elements
\* that are objects.
Leaf(t) == [list |-> FALSE, task |-> t, items |-> <<>>]
Nested(l) == [list |-> TRUE, task |-> 0, items |-> [k \in DOMAIN l |-> Leaf(l[k])]]

\* _flatten(l) from position i on: an empty list is removed, another list is
\* replaced by its elements, which are looked at in turn.
RECURSIVE FlattenFrom(_, _)
FlattenFrom(l, i) ==
  IF i > Len(l) THEN l
  ELSE IF l[i].list
       THEN IF l[i].items = <<>>
            THEN FlattenFrom(SubSeq(l, 1, i - 1) \o SubSeq(l, i + 1, Len(l)), i)
            ELSE FlattenFrom(SubSeq(l, 1, i - 1) \o l[i].items
                               \o SubSeq(l, i + 1, Len(l)), i)
       ELSE FlattenFrom(l, i + 1)

_flatten(l) == FlattenFrom(l, 1)

\* Distinct that appends every element.
Distinct_KeepAll(l, i, flist) ==
  flist \o [k \in 1..(Len(l) - i + 1) |-> l[k + i - 1].task]

\* "for r in ...: if r not in flist: flist.append(r)" from position i on.
RECURSIVE Distinct(_, _, _)
Distinct(l, i, flist) ==
  IF i > Len(l) THEN flist
  ELSE Distinct(l, i + 1,
                IF \E k \in DOMAIN flist : flist[k] = l[i].task
                THEN flist ELSE Append(flist, l[i].task))

\* Project.get_tasks: the members, a sub-Project replaced by its own list.
RECURSIVE get_tasks(_)
get_tasks(p) ==
  LET tlist == [k \in DOMAIN project_tasks[p] |->
                  IF project_tasks[p][k].project
                  THEN Nested(get_tasks(project_tasks[p][k].id))
                  ELSE Leaf(project_tasks[p][k].id)]
  IN Distinct(_flatten(tlist), 1, <<>>)

(***************************************************************************)
(* Project.start_date, Project.end_date, Project._reset_coord.             *)
(***************************************************************************)
\* datetime.date(9999, 1, 1) and datetime.date(1970, 1, 1), what an empty
\* Project answers: dates inside the range of dates, near its two ends.
EmptyProjectStart == DateMax - 1
EmptyProjectEnd == 1

RECURSIVE ProjectDate(_, _, _), ProjectDateLoop(_, _, _, _, _)

\* t.start_date() / t.end_date() of a member.
MemberDate(which, member, c) ==
  IF member.project THEN ProjectDate(which, member.id, c)
  ELSE IF which = "start" THEN start_date(member.id, c)
  ELSE call_end_date(member.id, c)

\* "if t.start_date() < first" / "if t.end_date() > last".
Better(which, a, b) == IF which = "start" THEN a < b ELSE a > b

\* One turn of "for t in self.tasks", r what the member answered.
ProjectDateLoopStep(which, p, i, best, r) ==
  IF r.c.exc # "" THEN r
  ELSE IF r.val = None \/ best = None THEN Raise(r.c, "TypeError")
  ELSE ProjectDateLoop(which, p, i + 1,
                       IF Better(which, Val(r.val), Val(best)) THEN r.val ELSE best,
                       r.c)

\* "for t in self.tasks: ..." from position i on.
ProjectDateLoop(which, p, i, best, c) ==
  IF i > Len(project_tasks[p]) THEN Return(c, best)
  ELSE ProjectDateLoopStep(which, p, i, best,
                           MemberDate(which, project_tasks[p][i], c))

\* "first = self.tasks[0].start_date()" answered r, then the loop.
ProjectDateFirst(which, p, r) ==
  IF r.c.exc # "" THEN r ELSE ProjectDateLoop(which, p, 1, r.val, r.c)

ProjectDate(which, p, c) ==
  IF Len(project_tasks[p]) = 0
  THEN Return(Log(c, "warning_empty_project", p),
              Some(IF which = "start" THEN EmptyProjectStart ELSE EmptyProjectEnd))
  ELSE ProjectDateFirst(which, p, MemberDate(which, project_tasks[p][1], c))

Project_start_date(p, c) == ProjectDate("start", p, c)
Project_end_date(p, c) == ProjectDate("end", p, c)

\* Project._reset_coord on the caches st = [cs, ce, nb].
RECURSIVE Project_reset_coord(_, _), ResetLoop(_, _, _)

\* ResetMember that leaves cache_end_date of a Task as it is.
ResetMember_StartOnly(member, st) ==
  IF member.project THEN Project_reset_coord(member.id, st)
  ELSE [st EXCEPT !.cs[member.id] = None]

\* "t._reset_coord()" of a member.
ResetMember(member, st) ==
  IF member.project THEN Project_reset_coord(member.id, st)
  ELSE [st EXCEPT !.cs[member.id] = None, !.ce[member.id] = None]

ResetLoop(p, i, st) ==
  IF i > Len(project_tasks[p]) THEN st
  ELSE ResetLoop(p, i + 1, ResetMember(project_tasks[p][i], st))

Project_reset_coord(p, st) == ResetLoop(p, 1, [st EXCEPT !.nb[p] = None])

\* The counts r that p.nb_elements() memoized and the number it returned.
Counted(p, r) ==
  /\ cache_nb_elements' = r.cache
  /\ last' = [NoCall EXCEPT !.op = "nb_elements", !.task = p, !.val = Some(r.val)]

\* p.nb_elements()
DoNbElements(p) ==
  /\ Counted(p, nb_elements(p, cache_nb_elements))
  /\ UNCHANGED <<NOT_WORKED_DAYS, VACATIONS, tasks, cache_start_date,
                 cache_end_date, calendar_changes, resources, unavailable,
                 project_tasks, stack>>

\* p.get_tasks()
DoGetTasks(p) ==
  /\ last' = [NoCall EXCEPT !.op = "get_tasks", !.task = p, !.val = get_tasks(p)]
  /\ UNCHANGED <<NOT_WORKED_DAYS, VACATIONS, tasks, cache_start_date,
                 cache_end_date, calendar_changes, assignments>>

\* p.start_date()
DoProjectStartDate(p) ==
  /\ Answered("Project.start_date", p, FALSE, Project_start_date(p, Context))
  /\ UNCHANGED <<NOT_WORKED_DAYS, VACATIONS, tasks, calendar_changes, assignments>>

\* p.end_date()
DoProjectEndDate(p) ==
  /\ Answered("Project.end_date", p, FALSE, Project_end_date(p, Context))
  /\ UNCHANGED <<NOT_WORKED_DAYS, VACATIONS, tasks, calendar_changes, assignments>>

\* The caches st after p._reset_coord().
Cleared(p, st) ==
  /\ cache_start_date' = st.cs
  /\ cache_end_date' = st.ce
  /\ cache_nb_elements' = st.nb
  /\ last' = [NoCall EXCEPT !.op = "Project._reset_coord", !.task = p]

\* p._reset_coord()
DoProjectResetCoord(p) ==
  /\ Cleared(p, Project_reset_coord(p, [cs |-> cache_start_date,
                                         ce |-> cache_end_date,
                                         nb |-> cache_nb_elements]))
  /\ UNCHANGED <<NOT_WORKED_DAYS, VACATIONS, tasks, calendar_changes, resources,
                 unavailable, project_tasks, stack>>

\* Projects built empty, members added and counted and listed in any order.
InitTree ==
  /\ NOT_WORKED_DAYS = {5, 6}
  /\ VACATIONS = {}
  /\ tasks = [i \in TaskIds |-> DefaultProvider]
  /\ Unresolved
  /\ NoResources
  /\ NoMembers

NextTree ==
  \/ \E p \in ProjectIds : \E member \in MembersFor(p) : add_task(p, member)
  \/ \E p \in ProjectIds : DoNbElements(p)
  \/ \E p \in ProjectIds : DoGetTasks(p)

SpecTree == InitTree /\ [][NextTree]_vars

\* The Tasks put in Projects: the first starts on the first date there is or on
\* the first anchor day, the second on the day after it or has no start at
\* all, the third is a Task or a Milestone on the last anchor day.
ProjectLeaves ==
  {<<t1, t2, t3>> :
     t1 \in {Task(Some(0), None, Some(1), None),
             Task(Some(FirstAnchor), None, Some(MaxDuration), None)},
     t2 \in {Task(Some(FirstAnchor + 1), None, Some(1), None),
             Task(None, None, Some(1), None)},
     t3 \in {Task(Some(LastAnchor), None, Some(1), None), Milestone(Some(LastAnchor))}}

\* The trees queried for their dates: Project 1 holds some of Task 1, Task 2
\* and Project 2 in some order, Project 2 some of Task 2 and Project 3,
\* Project 3 nothing or Task 3.
ProjectTrees ==
  {<<top, mid, low>> :
     top \in ListsOver({TaskMember(1), TaskMember(2), ProjectMember(2)}),
     mid \in {<<>>, <<TaskMember(2)>>, <<ProjectMember(3)>>,
              <<TaskMember(2), ProjectMember(3)>>},
     low \in {<<>>, <<TaskMember(3)>>}}

InitProject ==
  /\ NOT_WORKED_DAYS = {5, 6}
  /\ VACATIONS = {}
  /\ tasks \in ProjectLeaves
  /\ Unresolved
  /\ NoResources
  /\ project_tasks \in ProjectTrees
  /\ cache_nb_elements = [p \in ProjectIds |-> None]

NextProject ==
  \/ \E p \in ProjectIds : DoProjectStartDate(p)
  \/ \E p \in ProjectIds : DoProjectEndDate(p)

SpecProject == InitProject /\ [][NextProject]_vars

\* A chain of one-day Tasks from the first anchor day on, and a last Task that
\* follows the chain, or starts on a day off, or has a deadline and depends on
\* the first Task.
CalendarGraphs ==
  {[i \in TaskIds |->
      IF i = 1 THEN Task(Some(FirstAnchor), None, Some(1), None)
      ELSE IF i = NTasks THEN subject ELSE Chained(i)] :
     subject \in {Task(None, None, Some(MaxDuration), Some(<<NTasks - 1>>)),
                  Task(Some(FirstAnchor + 1), None, Some(1), None),
                  Task(None, Some(LastAnchor), Some(1), Some(<<1>>))}}

\* Every Task in Project 1, the first directly and the others through
\* Project 2; or the last Task alone in Project 1.
CalendarTrees ==
  {[p \in ProjectIds |->
      IF p = 1 THEN <<TaskMember(1), ProjectMember(2)>>
      ELSE IF p = 2 THEN [k \in 1..(NTasks - 1) |-> TaskMember(k + 1)]
      ELSE <<>>],
   [p \in ProjectIds |-> IF p = 1 THEN <<TaskMember(NTasks)>> ELSE <<>>]}

InitCalendar ==
  /\ NOT_WORKED_DAYS = {5, 6}
  /\ VACATIONS \in {{}} \cup {{d} : d \in VacationDays}
  /\ tasks \in CalendarGraphs
  /\ Unresolved
  /\ NoResources
  /\ project_tasks \in CalendarTrees
  /\ cache_nb_elements = [p \in ProjectIds |-> None]

\* The queries and the resets, with the calendar changed while dates are cached.
NextCalendar ==
  \/ Next
  \/ \E p \in ProjectIds : DoProjectResetCoord(p)
  \/ \E days \in NotWorkedChoices : define_not_worked_days(days)
  \/ \E d \in VacationDays : \E e \in {None, Some(LastAnchor)} : add_vacations(d, e)

SpecCalendar == InitCalendar /\ [][NextCalendar]_vars

(***************************************************************************)
(* Dependencies added after construction.                                  *)
(***************************************************************************)
MaxDepends == 2

\* The dependencies held by depends_of, as a list.
Held(depends_of) ==
  IF depends_of = None THEN <<>>
  ELSE IF IsList(depends_of) THEN Val(depends_of) ELSE <<Val(depends_of)>>

\* t.add_depends(depends_of), given a list Some(l) built for the call or a
\* single Object(i).  On None the argument is stored as it is; otherwise it
\* is appended, and an object that is no list has no append.
add_depends(t, depends_of) ==
  LET self == tasks[t]
      appends == IF IsList(depends_of) THEN Val(depends_of) # <<>> ELSE TRUE
      raises == self.depends_of # None /\ ~IsList(self.depends_of) /\ appends
  IN /\ Len(Held(self.depends_of)) + Len(Held(depends_of)) <= MaxDepends
     /\ tasks' = [tasks EXCEPT ![t].depends_of =
                    IF self.depends_of = None THEN depends_of
                    ELSE IF raises THEN self.depends_of
                    ELSE IF appends
                    THEN Some(Val(self.depends_of) \o Held(depends_of))
                    ELSE self.depends_of]
     /\ last' = [NoCall EXCEPT !.op = "add_depends", !.task = t,
                               !.exc = IF raises THEN "AttributeError" ELSE ""]
     /\ UNCHANGED <<NOT_WORKED_DAYS, VACATIONS, cache_start_date, cache_end_date,
                    calendar_changes, assignments>>

\* What add_depends is given on object t: an object built before t, or a list
\* of at most two of them.
DependsChoices(t) ==
  {Object(i) : i \in 1..(t - 1)}
    \cup {Some(l) : l \in {l \in ListsOver(1..(t - 1)) : Len(l) <= 2}}

\* The first object is a one-day Task on the first anchor day; the others have
\* a duration, with a start, with a stop, or with the object before them as
\* their dependency, or they have nothing but a start.
DependsShapes ==
  {Task(Some(LastAnchor), None, Some(1), None),
   Task(None, Some(LastAnchor), Some(1), None),
   Task(Some(FirstAnchor), None, None, None)}

DependsGraphs ==
  {ts \in [TaskIds -> DependsShapes \cup {DefaultProvider}
                        \cup {Chained(i) : i \in 2..NTasks}] :
     /\ ts[1] = DefaultProvider
     /\ \A i \in 2..NTasks : ts[i] \in DependsShapes \cup {Chained(i)}}

InitDepends ==
  /\ NOT_WORKED_DAYS = {5, 6}
  /\ VACATIONS = {}
  /\ tasks \in DependsGraphs
  /\ Unresolved
  /\ NoResources
  /\ NoMembers

\* The queries and the reset, with dependencies added in between.
NextDepends ==
  \/ Next
  \/ \E t \in TaskIds : \E depends_of \in DependsChoices(t) : add_depends(t, depends_of)

SpecDepends == InitDepends /\ [][NextDepends]_vars

(***************************************************************************)
(* A Task built with depends_of=None next to the same Task built with      *)
(* depends_of=[].                                                          *)
(***************************************************************************)
\* Two of start, stop and duration.
TwoAnchors ==
  {x \in [start : Optional(AnchorDays), stop : Optional(AnchorDays),
          duration : Optional(0..MaxDuration)] :
     (IF x.start = None THEN 1 ELSE 0) + (IF x.stop = None THEN 1 ELSE 0)
       + (IF x.duration = None THEN 1 ELSE 0) = 1}

\* Object 1 is built with depends_of=None, object 2 with the same anchors and
\* depends_of=[] (kept as it is: it is a list), the others are the default.
TwinGraphs ==
  {[i \in TaskIds |->
      IF i = 1 THEN Task(x.start, x.stop, x.duration, None)
      ELSE IF i = 2 THEN Task(x.start, x.stop, x.duration, Some(<<>>))
      ELSE DefaultProvider] : x \in TwoAnchors}

InitTwins ==
  /\ NOT_WORKED_DAYS = {5, 6}
  /\ VACATIONS \in {{}} \cup {{d} : d \in VacationDays}
  /\ tasks \in TwinGraphs
  /\ Unresolved
  /\ NoResources
  /\ NoMembers

SpecTwins == InitTwins /\ [][Next]_vars

(***************************************************************************)
(* Long Tasks against a late deadline: the deadline lies days after the     *)
(* dependencies end.                                                       *)
(***************************************************************************)
LongDuration == 4

LateStop == 9

\* The last object is a Task of one to LongDuration days, from the first anchor
\* day or not, up to the last anchor day, to LateStop or open-ended, after the
\* first object, the one before it, both or none.
DurationSubjects ==
  {Task(a, b, Some(d), deps) :
     a \in Optional({FirstAnchor}), b \in Optional({LastAnchor, LateStop}),
     d \in 1..LongDuration,
     deps \in Optional({<<1>>, <<NTasks - 1>>, <<1, NTasks - 1>>})}

\* The first object is a basic provider, the ones after it follow it in a chain.
DurationGraphs ==
  {[i \in TaskIds |->
      IF i = 1 THEN first ELSE IF i = NTasks THEN subject ELSE Chained(i)] :
     first \in Basic, subject \in DurationSubjects}

InitDuration ==
  /\ NOT_WORKED_DAYS = {5, 6}
  /\ VACATIONS \in {{}} \cup {{d} : d \in VacationDays}
  /\ tasks \in DurationGraphs
  /\ Unresolved
  /\ NoResources
  /\ NoMembers

SpecDuration == InitDuration /\ [][Next]_vars

(***************************************************************************)
(* A query followed step by step: one step is one turn of a day-walking    *)
(* loop, one call, or one return.  The dates a call returns are not kept:  *)
(* a loop that starts from a computed date starts from any date, and a     *)
(* loop that the code enters on a comparison may be entered or not.        *)
(***************************************************************************)
\* What a frame has left to do: a loop to enter (cday None: from any date), a
\* loop being walked, the calls on the dependencies (i = 0: the call
\* "self.depends_of[0].end_date()" before the for loop), the call
\* self.start_date(), an exception.
Walk(loop, cday, duration, optional) ==
  [kind |-> "walk", loop |-> loop, cday |-> cday, duration |-> duration,
   optional |-> optional, i |-> 0, exc |-> ""]
Walking(loop, cday, duration) ==
  [kind |-> "walking", loop |-> loop, cday |-> Some(cday), duration |-> duration,
   optional |-> FALSE, i |-> 0, exc |-> ""]
Deps(i) ==
  [kind |-> "deps", loop |-> "", cday |-> None, duration |-> None,
   optional |-> FALSE, i |-> i, exc |-> ""]
SelfStart ==
  [kind |-> "self_start", loop |-> "", cday |-> None, duration |-> None,
   optional |-> FALSE, i |-> 0, exc |-> ""]
RaiseItem(e) ==
  [kind |-> "raise", loop |-> "", cday |-> None, duration |-> None,
   optional |-> FALSE, i |-> 0, exc |-> e]

\* The loops and calls of Task.start_date, in the order of the source.
PlanStart(t) ==
  LET self == tasks[t] IN
  IF self.start # None
  THEN IF self.depends_of = None
       THEN <<Walk("forward", self.start, None, FALSE)>>
       ELSE <<Walk("forward", self.start, None, FALSE), Deps(1),
              Walk("forward", None, None, FALSE)>>
  ELSE IF self.duration = None
  THEN IF self.depends_of # None THEN <<Deps(0), RaiseItem("TypeError")>> ELSE <<>>
  ELSE IF self.depends_of # None /\ self.stop = None
  THEN <<Deps(0), Walk("forward", None, None, FALSE)>>
  ELSE IF self.stop # None
  THEN <<Walk("count_backward", self.stop, self.duration, FALSE)>>
         \o (IF self.depends_of # None
             THEN <<Deps(0), Walk("forward", None, None, TRUE)>> ELSE <<>>)
  ELSE <<>>

\* The loops and calls of Task.end_date (of a Milestone: its start_date).
PlanEnd(t) ==
  LET self == tasks[t] IN
  IF IsMilestone(t) THEN <<SelfStart>>
  ELSE IF self.duration = None \/ (self.start = None /\ self.stop # None)
  THEN IF self.stop = None THEN <<RaiseItem("AttributeError")>>
       ELSE <<Walk("backward", self.stop, None, FALSE), SelfStart,
              Walk("count_forward", None, self.duration, TRUE)>>
  ELSE IF self.stop = None
  THEN <<SelfStart, Walk("count_forward", None, self.duration, FALSE)>>
  ELSE <<RaiseItem("ValueError")>>

Frame(op, t) ==
  [op |-> op, task |-> t, todo |-> IF op = "start_date" THEN PlanStart(t) ELSE PlanEnd(t)]

\* The innermost frame and what it does next.
Top == stack[Len(stack)]
Item == Top.todo[1]
Doing(kind) == stack # <<>> /\ Top.todo # <<>> /\ Item.kind = kind

\* The stack with the todo list of the innermost frame replaced.
WithTodo(todo) == [stack EXCEPT ![Len(stack)].todo = todo]

\* The outermost call has ended, with exception e or without ("").
Ended(e) ==
  last' = [NoCall EXCEPT !.op = stack[1].op, !.task = stack[1].task, !.exc = e]

\* The dates a loop may start from when the code computes its first day.
WalkStarts == {0, FirstAnchor, LastAnchor + 1, DateMax}

\* Whether loop w goes round once more.
WalkOn(w) ==
  CASE w.loop = "forward" -> NotWorked(Val(w.cday))
    [] w.loop = "backward" -> NotWorked(Val(w.cday))
    [] w.loop = "count_forward" -> Val(w.duration) > 1 \/ NotWorked(Val(w.cday))
    [] OTHER -> Val(w.duration) > 0

\* The day after one turn of loop w, which may be out of the range of dates.
NextDay(w) ==
  IF w.loop \in {"forward", "count_forward"} THEN Val(w.cday) + 1 ELSE Val(w.cday) - 1

\* WalkTurn on dates that wrap around instead of ending.
WalkTurn_Wrap(w) ==
  Walking(w.loop, NextDay(w) % (DateMax + 1),
          IF w.loop \in {"count_forward", "count_backward"} /\ ~NotWorked(Val(w.cday))
          THEN Some(Val(w.duration) - 1) ELSE w.duration)

\* One turn of loop w: a worked day is counted by the counting loops, and the
\* day moves by one.
WalkTurn(w) ==
  IF NextDay(w) > DateMax \/ NextDay(w) < 0 THEN RaiseItem("OverflowError")
  ELSE Walking(w.loop, NextDay(w),
               IF w.loop \in {"count_forward", "count_backward"}
                    /\ ~NotWorked(Val(w.cday))
               THEN Some(Val(w.duration) - 1) ELSE w.duration)

\* t.start_date() or t.end_date() is called from outside.
Query(op, t) ==
  /\ stack = <<>>
  /\ stack' = <<Frame(op, t)>>
  /\ UNCHANGED <<NOT_WORKED_DAYS, VACATIONS, tasks, cache_start_date, cache_end_date,
                 calendar_changes, resources, unavailable, project_tasks,
                 cache_nb_elements, last>>

\* A loop is entered, a counting loop with a duration; or it is not entered.
EnterWalk ==
  /\ Doing("walk")
  /\ \/ /\ Item.loop \in {"count_forward", "count_backward"} => Item.duration # None
        /\ \E d \in (IF Item.cday = None THEN WalkStarts ELSE {Val(Item.cday)}) :
             stack' = WithTodo(<<Walking(Item.loop, d, Item.duration)>> \o Tail(Top.todo))
     \/ /\ Item.loop \in {"count_forward", "count_backward"} /\ Item.duration = None
        /\ stack' = WithTodo(<<RaiseItem("TypeError")>>)
     \/ /\ Item.optional
        /\ stack' = WithTodo(Tail(Top.todo))
  /\ UNCHANGED <<NOT_WORKED_DAYS, VACATIONS, tasks, cache_start_date, cache_end_date,
                 calendar_changes, resources, unavailable, project_tasks,
                 cache_nb_elements, last>>

\* The loop condition is tested: one more turn, or the loop is left.
WalkDay ==
  /\ Doing("walking")
  /\ stack' = WithTodo(IF WalkOn(Item) THEN <<WalkTurn(Item)>> \o Tail(Top.todo)
                       ELSE Tail(Top.todo))
  /\ UNCHANGED <<NOT_WORKED_DAYS, VACATIONS, tasks, cache_start_date, cache_end_date,
                 calendar_changes, resources, unavailable, project_tasks,
                 cache_nb_elements, last>>

\* t.end_date() is called on the next dependency, or the list is exhausted.
CallDependency ==
  /\ Doing("deps")
  /\ LET deps == Val(tasks[Top.task].depends_of)
         i == Item.i
     IN stack' = IF i = 0 /\ deps = <<>> THEN WithTodo(<<RaiseItem("IndexError")>>)
                 ELSE IF i = 0
                 THEN Append(WithTodo(<<Deps(1)>> \o Tail(Top.todo)),
                             Frame("end_date", deps[1]))
                 ELSE IF i <= Len(deps)
                 THEN Append(WithTodo(<<Deps(i + 1)>> \o Tail(Top.todo)),
                             Frame("end_date", deps[i]))
                 ELSE WithTodo(Tail(Top.todo))
  /\ UNCHANGED <<NOT_WORKED_DAYS, VACATIONS, tasks, cache_start_date, cache_end_date,
                 calendar_changes, resources, unavailable, project_tasks,
                 cache_nb_elements, last>>

\* self.start_date() is called from end_date.
CallSelfStart ==
  /\ Doing("self_start")
  /\ stack' = Append(WithTodo(Tail(Top.todo)), Frame("start_date", Top.task))
  /\ UNCHANGED <<NOT_WORKED_DAYS, VACATIONS, tasks, cache_start_date, cache_end_date,
                 calendar_changes, resources, unavailable, project_tasks,
                 cache_nb_elements, last>>

\* An exception leaves every frame: nothing in gantt.py catches it.
RaiseOut ==
  /\ Doing("raise")
  /\ stack' = <<>>
  /\ Ended(Item.exc)
  /\ UNCHANGED <<NOT_WORKED_DAYS, VACATIONS, tasks, cache_start_date, cache_end_date,
                 calendar_changes, resources, unavailable, project_tasks,
                 cache_nb_elements>>

\* The innermost call returns.
ReturnFrame ==
  /\ stack # <<>> /\ Top.todo = <<>>
  /\ stack' = SubSeq(stack, 1, Len(stack) - 1)
  /\ IF Len(stack) = 1 THEN Ended("") ELSE UNCHANGED last
  /\ UNCHANGED <<NOT_WORKED_DAYS, VACATIONS, tasks, cache_start_date, cache_end_date,
                 calendar_changes, resources, unavailable, project_tasks,
                 cache_nb_elements>>

\* The days off defined before the query.
WeekdaySets == {{}, {5, 6}, 0..5, 0..6}

\* The chain of one-day Tasks, and a last Task of every shape that depends on
\* nothing or on the two Tasks before it.
TerminationGraphs ==
  {[i \in TaskIds |->
      IF i = 1 THEN Task(Some(FirstAnchor), None, Some(1), None)
      ELSE IF i = NTasks THEN subject ELSE Chained(i)] :
     subject \in {Task(a, b, d, deps) :
                    a \in {None, Some(FirstAnchor + 1)}, b \in {None, Some(LastAnchor)},
                    d \in {None, Some(MaxDuration)},
                    deps \in {None, Some(<<NTasks - 1, NTasks - 2>>)}}}

InitTermination ==
  /\ NOT_WORKED_DAYS \in WeekdaySets
  /\ VACATIONS \in {{}, {LastAnchor}}
  /\ tasks \in TerminationGraphs
  /\ Unresolved
  /\ NoResources
  /\ NoMembers

\* The steps of a query in progress.
Run ==
  \/ EnterWalk
  \/ WalkDay
  \/ CallDependency
  \/ CallSelfStart
  \/ RaiseOut
  \/ ReturnFrame

NextTermination ==
  \/ \E op \in {"start_date", "end_date"} : \E t \in TaskIds : Query(op, t)
  \/ Run

\* A query in progress goes on: the interpreter runs its next statement.
SpecTermination == InitTermination /\ [][NextTermination]_vars /\ WF_vars(Run)

(***************************************************************************)
(* What the claims speak of, stated without the operators above.           *)
(***************************************************************************)
\* A working day: neither a day off of the week nor a vacation date.
Working(d) == Weekday(d) \notin NOT_WORKED_DAYS /\ d \notin VACATIONS

WorkingDaysIn(a, b) == Cardinality({x \in a..b : Working(x)})

\* v is the earliest working day >= d.
EarliestWorkingFrom(v, d) ==
  v >= d /\ Working(v) /\ \A x \in d..(v - 1) : ~Working(x)

EarliestWorking(d) == CHOOSE v \in d..DateMax : EarliestWorkingFrom(v, d)

MaxOf(S) == CHOOSE m \in S : \A x \in S : x <= m

Range(l) == {l[k] : k \in DOMAIN l}

\* The last operation was t.op(), and it did not find its cache set.
Resolved(op, t) == last.op = op /\ last.task = t /\ ~last.hit

Logged(tag, t) == <<tag, t>> \in last.log

\* What a resolved dependency's end_date() returns.
EndOf(d) == IF IsMilestone(d) THEN Val(cache_start_date[d]) ELSE Val(cache_end_date[d])

\* C1: start_date() (resp. end_date()) called twice in a row on an object
\* returns the same value both times, and the second call changes no cache.
C1_Idempotent ==
  [][(/\ last.op \in {"start_date", "end_date"}
      /\ last.exc = ""
      /\ last'.op = last.op
      /\ last'.task = last.task)
     => (/\ last'.exc = ""
         /\ last'.val = last.val
         /\ cache_start_date' = cache_start_date
         /\ cache_end_date' = cache_end_date)]_vars

\* A repeated start_date() on a task with dependencies that returned a date.
C1_Witness ==
  /\ last.op = "start_date" /\ last.again /\ last.val # None
  /\ tasks[last.task].depends_of \notin {None, Some(<<>>)}

\* C2: for a Task with duration d >= 1 and no stop whose start resolves,
\* end_date() is the d-th working day counted from start_date() inclusive.
C2_ForwardCount ==
  \A t \in TaskIds :
    (/\ Resolved("end_date", t)
     /\ tasks[t].kind = "Task"
     /\ tasks[t].stop = None
     /\ tasks[t].duration # None /\ Val(tasks[t].duration) >= 1
     /\ tasks[t].start # None \/ tasks[t].depends_of \notin {None, Some(<<>>)})
    => (/\ last.exc = ""
        /\ cache_start_date[t] # None
        /\ last.val # None
        /\ Working(Val(last.val))
        /\ WorkingDaysIn(Val(cache_start_date[t]), Val(last.val)) = Val(tasks[t].duration)
        /\ (Val(tasks[t].duration) = 1 /\ Working(Val(cache_start_date[t]))
              => last.val = cache_start_date[t]))

\* A 2-day task whose span holds days that are not worked.
C2_Witness ==
  /\ Resolved("end_date", NTasks) /\ last.exc = ""
  /\ tasks[NTasks].stop = None /\ tasks[NTasks].start # None
  /\ tasks[NTasks].duration = Some(2)
  /\ Val(last.val) > Val(cache_start_date[NTasks]) + 1

\* C3: with start set and no dependencies, start_date() is the earliest working
\* day >= start, and the warning is logged exactly when that is not start.
C3_StartNoDependencies ==
  \A t \in TaskIds :
    (/\ Resolved("start_date", t)
     /\ tasks[t].start # None
     /\ tasks[t].depends_of = None)
    => (/\ last.exc = ""
        /\ last.val # None
        /\ EarliestWorkingFrom(Val(last.val), Val(tasks[t].start))
        /\ cache_start_date[t] = last.val
        /\ Logged("warning_vacations", t) <=> last.val # tasks[t].start)

\* A start on a vacation date, moved to the next day.
C3_Witness ==
  /\ Resolved("start_date", NTasks) /\ last.exc = ""
  /\ tasks[NTasks].start # None /\ tasks[NTasks].depends_of = None
  /\ Val(tasks[NTasks].start) \in VACATIONS
  /\ Weekday(Val(tasks[NTasks].start)) \notin NOT_WORKED_DAYS
  /\ last.val = Some(Val(tasks[NTasks].start) + 1)
  /\ Logged("warning_vacations", NTasks)

\* end_date() + 1 day for a Task, end_date() for a Milestone.
AdjustedEnd(d) == IF IsMilestone(d) THEN EndOf(d) ELSE EndOf(d) + 1

\* C4: with start set and dependencies, start_date() is the later of the natural
\* start and the next working day from the latest adjusted end, whatever the
\* order of the list; the warning is logged exactly when that is not start.
C4_StartWithDependencies ==
  \A t \in TaskIds :
    (/\ Resolved("start_date", t)
     /\ tasks[t].start # None
     /\ tasks[t].depends_of \notin {None, Some(<<>>)})
    => (/\ last.exc = ""
        /\ LET deps == Range(Val(tasks[t].depends_of))
               naturalStart == EarliestWorking(Val(tasks[t].start))
               predecessorEnd == MaxOf({AdjustedEnd(d) : d \in deps})
           IN last.val = Some(MaxOf({naturalStart, EarliestWorking(predecessorEnd)}))
        /\ cache_start_date[t] = last.val
        /\ Logged("warning_dependencies", t) <=> last.val # tasks[t].start)

\* A Task and a Milestone in the list, and the start moved by them.
C4_Witness ==
  /\ Resolved("start_date", NTasks) /\ last.exc = ""
  /\ tasks[NTasks].start # None
  /\ tasks[NTasks].depends_of # None
  /\ \E a, b \in Range(Val(tasks[NTasks].depends_of)) : IsMilestone(a) /\ ~IsMilestone(b)
  /\ Val(last.val) > EarliestWorking(Val(tasks[NTasks].start))
  /\ Logged("warning_dependencies", NTasks)

\* C5: with only a duration and Task dependencies, start_date() is the first
\* working day strictly after the latest end_date() of the dependencies,
\* whatever the order of the list.
C5_StartAfterDependencies ==
  \A t \in TaskIds :
    (/\ Resolved("start_date", t)
     /\ tasks[t].start = None /\ tasks[t].stop = None /\ tasks[t].duration # None
     /\ tasks[t].depends_of \notin {None, Some(<<>>)}
     /\ \A d \in Range(Val(tasks[t].depends_of)) : ~IsMilestone(d))
    => (/\ last.exc = ""
        /\ LET latest == MaxOf({EndOf(d) : d \in Range(Val(tasks[t].depends_of))})
           IN last.val = Some(EarliestWorking(latest + 1))
        /\ cache_start_date[t] = last.val)

\* Two Task dependencies, the one listed first ending later than the other:
\* the task starts on the day after it.
C5_Witness ==
  /\ Resolved("start_date", NTasks) /\ last.exc = ""
  /\ tasks[NTasks].start = None /\ tasks[NTasks].stop = None
  /\ tasks[NTasks].duration # None
  /\ tasks[NTasks].depends_of # None
  /\ Len(Val(tasks[NTasks].depends_of)) = 2
  /\ LET a == Val(tasks[NTasks].depends_of)[1]
         b == Val(tasks[NTasks].depends_of)[2]
     IN /\ ~IsMilestone(a) /\ ~IsMilestone(b)
        /\ EndOf(a) > EndOf(b)
        /\ Val(last.val) = EndOf(a) + 1

\* v is the latest working day <= d.
LatestWorkingUpTo(v, d) ==
  v <= d /\ Working(v) /\ \A x \in (v + 1)..d : ~Working(x)

\* The day on which a task of n >= 1 working days must start to end on stop.
DeadlineStart(stop, n) ==
  CHOOSE v \in 0..stop : Working(v) /\ WorkingDaysIn(v, stop) = n

\* Every dependency of t has been resolved.
DependenciesResolved(t) ==
  \A d \in Range(Val(tasks[t].depends_of)) :
    IF IsMilestone(d) THEN cache_start_date[d] # None ELSE cache_end_date[d] # None

\* C6: a Task whose only dependency is a Milestone on working day D does not
\* start later than D because of it: not later than D when it has only a
\* duration, not later than the later of D and its own start otherwise.
C6_MilestoneOffset ==
  \A t \in TaskIds :
    (/\ Resolved("start_date", t) /\ last.exc = ""
     /\ tasks[t].depends_of # None /\ Len(Val(tasks[t].depends_of)) = 1
     /\ IsMilestone(Val(tasks[t].depends_of)[1])
     /\ Working(EndOf(Val(tasks[t].depends_of)[1]))
     /\ tasks[t].start # None \/ (tasks[t].duration # None /\ Val(tasks[t].duration) >= 1))
    => LET D == EndOf(Val(tasks[t].depends_of)[1])
           own == IF tasks[t].start # None THEN EarliestWorking(Val(tasks[t].start))
                  ELSE IF tasks[t].stop # None
                       THEN DeadlineStart(Val(tasks[t].stop), Val(tasks[t].duration))
                  ELSE D
       IN Val(last.val) <= MaxOf({D, own})

\* C7: with only a stop, start_date() returns a date and caches it: stop itself
\* without dependencies, the later of stop and the predecessor end with them.
C7_StartFromStop ==
  \A t \in TaskIds :
    (/\ Resolved("start_date", t)
     /\ tasks[t].kind = "Task"
     /\ tasks[t].start = None /\ tasks[t].stop # None /\ tasks[t].duration = None
     /\ tasks[t].depends_of # Some(<<>>))
    => (/\ last.exc = ""
        /\ last.val # None
        /\ cache_start_date[t] = last.val
        /\ tasks[t].depends_of = None => last.val = tasks[t].stop
        /\ tasks[t].depends_of # None =>
             last.val = Some(MaxOf({Val(tasks[t].stop)} \cup
                                   {IF IsMilestone(d) THEN EndOf(d) - 1 ELSE EndOf(d) :
                                      d \in Range(Val(tasks[t].depends_of))})))

\* No dependency of t ends after day v.
NoPressure(t, v) ==
  \/ tasks[t].depends_of = None
  \/ /\ tasks[t].depends_of # Some(<<>>)
     /\ DependenciesResolved(t)
     /\ \A d \in Range(Val(tasks[t].depends_of)) : EndOf(d) <= v

C9_DeadlineInfeasible ==
  \A t \in TaskIds :
    (/\ last.op \in {"start_date", "end_date"} /\ last.task = t /\ ~last.hit
     /\ tasks[t].kind = "Task"
     /\ tasks[t].start = None /\ tasks[t].stop # None
     /\ tasks[t].duration # None => Val(tasks[t].duration) >= 1
     /\ tasks[t].depends_of \notin {None, Some(<<>>)}
     /\ DependenciesResolved(t)
     /\ \E d \in Range(Val(tasks[t].depends_of)) :
          EndOf(d) > (IF tasks[t].duration = None THEN Val(tasks[t].stop)
                      ELSE DeadlineStart(Val(tasks[t].stop), Val(tasks[t].duration))))
    => (/\ last.exc = ""
        /\ last.val # None
        /\ \A d \in Range(Val(tasks[t].depends_of)) : Val(last.val) >= EndOf(d)
        /\ last.op = "start_date" => Logged("error_on_time", t))

\* C10: for a Task given by start and stop, end_date() does not fail and is the
\* latest working day <= stop.
C10_EndFromStop ==
  \A t \in TaskIds :
    (/\ Resolved("end_date", t)
     /\ tasks[t].kind = "Task"
     /\ tasks[t].start # None /\ tasks[t].stop # None /\ tasks[t].duration = None)
    => (/\ last.exc = ""
        /\ last.val # None
        /\ LatestWorkingUpTo(Val(last.val), Val(tasks[t].stop)))

\* The conflict records expected of task t when "working day" is decided by
\* worked(d): one per assigned resource and day of the span on which the
\* resource is on leave.
ExpectedConflicts(t, worked(_)) ==
  IF resources[t] \in {None, Some(<<>>)} THEN {}
  ELSE UNION {{[resource |-> r, date |-> d, task |-> t] :
                 d \in {x \in Val(cache_start_date[t])..Val(cache_end_date[t]) :
                          worked(x) /\ x \in unavailable[r]}} :
              r \in Range(Val(resources[t]))}

WeekdayWorked(d) == Weekday(d) \notin NOT_WORKED_DAYS

\* C11: the conflict check returns exactly one record per assigned resource and
\* working day (not a day off, not a vacation date) of the task's span on which
\* the resource is unavailable, and nothing else; without resources, nothing.
C11_Conflicts ==
  \A t \in TaskIds :
    (last.op = "check_conflicts" /\ last.task = t /\ last.exc = "")
      => /\ Range(last.val) = ExpectedConflicts(t, Working)
         /\ Len(last.val) = Cardinality(ExpectedConflicts(t, Working))

\* The Task leaves contained in Project p, through nested Projects, counted
\* with multiplicity.
RECURSIVE CountLeaves(_), CountLeavesFrom(_, _)
CountLeavesFrom(p, i) ==
  IF i > Len(project_tasks[p]) THEN 0
  ELSE (IF project_tasks[p][i].project
        THEN CountLeaves(project_tasks[p][i].id) ELSE 1) + CountLeavesFrom(p, i + 1)

CountLeaves(p) == CountLeavesFrom(p, 1)

\* C13: whatever add_task and nb_elements calls came before, on the Project or
\* on the Projects nested in it, nb_elements() returns the number of Task
\* leaves the Project contains at that moment.
C13_NbElements ==
  \A p \in ProjectIds :
    (last.op = "nb_elements" /\ last.task = p) => Val(last.val) = CountLeaves(p)

\* The Task leaves met walking Project p depth first, members in their order.
RECURSIVE LeavesInOrder(_), LeavesInOrderFrom(_, _)
LeavesInOrderFrom(p, i) ==
  IF i > Len(project_tasks[p]) THEN <<>>
  ELSE (IF project_tasks[p][i].project
        THEN LeavesInOrder(project_tasks[p][i].id)
        ELSE <<project_tasks[p][i].id>>) \o LeavesInOrderFrom(p, i + 1)

LeavesInOrder(p) == LeavesInOrderFrom(p, 1)

\* l without the elements that occurred earlier in l, from position i on.
RECURSIVE FirstSeenFrom(_, _)
FirstSeenFrom(l, i) ==
  IF i > Len(l) THEN <<>>
  ELSE (IF \E j \in 1..(i - 1) : l[j] = l[i] THEN <<>> ELSE <<l[i]>>)
       \o FirstSeenFrom(l, i + 1)

\* C14: get_tasks() lists the Task leaves reachable through nested Projects,
\* each once, in the order a depth-first walk first meets them, and nothing else.
C14_GetTasks ==
  \A p \in ProjectIds :
    (last.op = "get_tasks" /\ last.task = p)
      => last.val = FirstSeenFrom(LeavesInOrder(p), 1)

\* get_tasks() on a Project nested three deep with a leaf at the bottom, where
\* a leaf met twice is listed once.
C14_Witness ==
  /\ last.op = "get_tasks" /\ last.task = 1
  /\ \E i \in DOMAIN project_tasks[1] : project_tasks[1][i] = ProjectMember(2)
  /\ \E i \in DOMAIN project_tasks[2] : project_tasks[2][i] = ProjectMember(3)
  /\ project_tasks[3] # <<>>
  /\ Len(last.val) < CountLeaves(1)

MinOf(S) == CHOOSE m \in S : \A x \in S : m <= x

\* The Tasks contained in Project p, through nested Projects.
LeavesOf(p) == Range(LeavesInOrder(p))

\* C12: a Project with members answers the earliest start_date() and the latest
\* end_date() of the Tasks it contains through nested Projects, whatever the
\* order of the members; a Project without members answers 9999-01-01 and
\* 1970-01-01 and logs a warning.
C12_ProjectRange ==
  \A p \in ProjectIds :
    (last.op \in {"Project.start_date", "Project.end_date"}
       /\ last.task = p /\ last.exc = "")
      => IF project_tasks[p] = <<>>
         THEN /\ Logged("warning_empty_project", p)
              /\ last.val = Some(IF last.op = "Project.start_date"
                                 THEN EmptyProjectStart ELSE EmptyProjectEnd)
         ELSE LeavesOf(p) # {}
                => last.val = Some(IF last.op = "Project.start_date"
                                   THEN MinOf({Val(cache_start_date[t]) : t \in LeavesOf(p)})
                                   ELSE MaxOf({Val(IF IsMilestone(t) THEN cache_start_date[t]
                                                   ELSE cache_end_date[t]) :
                                                 t \in LeavesOf(p)}))

\* A graph just built: nothing cached, nothing logged.
FreshContext ==
  [cs |-> [i \in TaskIds |-> None], ce |-> [i \in TaskIds |-> None],
   log |-> {}, exc |-> ""]

\* What t.start_date() / t.end_date() answers on the graph just built, under
\* the calendar as it is now.
Fresh(op, t) ==
  IF op = "start_date" THEN start_date(t, FreshContext)
  ELSE call_end_date(t, FreshContext)

\* The cache a call of op on t answers from, when it is set.
CacheOf(op, t) ==
  IF op = "start_date" \/ IsMilestone(t) THEN cache_start_date[t]
  ELSE cache_end_date[t]

\* C15: a change of the calendar touches no cache, and a Task whose date is
\* cached goes on answering it; Project._reset_coord() clears both caches of
\* every Task the Project contains through nested Projects; and right after a
\* Project holding every Task was reset, a query answers what the graph just
\* built answers under the calendar of that moment.
C15_CacheInvalidation ==
  [][/\ last'.op \in {"define_not_worked_days", "add_vacations"}
          => /\ cache_start_date' = cache_start_date
             /\ cache_end_date' = cache_end_date
     /\ (last'.op \in {"start_date", "end_date"}
           /\ CacheOf(last'.op, last'.task) # None)
          => /\ last'.val = CacheOf(last'.op, last'.task)
             /\ last'.exc = ""
     /\ last'.op = "Project._reset_coord"
          => \A t \in LeavesOf(last'.task) :
               cache_start_date'[t] = None /\ cache_end_date'[t] = None
     /\ (last.op = "Project._reset_coord" /\ LeavesOf(last.task) = TaskIds
           /\ last'.op \in {"start_date", "end_date"})
          => /\ last'.val = Fresh(last'.op, last'.task).val
             /\ last'.exc = Fresh(last'.op, last'.task).c.exc
             /\ cache_start_date' = Fresh(last'.op, last'.task).c.cs
             /\ cache_end_date' = Fresh(last'.op, last'.task).c.ce]_vars

\* After a change of the calendar, start_date() answers from its cache a day
\* that is no longer a working day.
C15_Witness ==
  /\ calendar_changes > 0
  /\ last.op = "start_date" /\ last.hit /\ last.val # None
  /\ ~Working(Val(last.val))

\* C16: on an acyclic graph and under any days off and vacations, a call of
\* start_date() or end_date() ends: its loops and its calls do not go on forever.
C16_Termination == (stack # <<>>) ~> (stack = <<>>)

\* With every weekday a day off, a call has ended: its loop walked to the last
\* date there is.
C16_Witness ==
  /\ stack = <<>>
  /\ NOT_WORKED_DAYS = 0..6
  /\ last.op \in {"start_date", "end_date"} /\ last.exc = "OverflowError"

\* C17: on a Task built with none or all three of start, stop and duration (the
\* constructor logged its error), start_date() and end_date() return a date or
\* None and raise no exception.
C17_Malformed ==
  \A t \in TaskIds :
    (/\ last.op \in {"start_date", "end_date"} /\ last.task = t
     /\ tasks[t].kind = "Task"
     /\ nonecount(tasks[t]) \in {0, 3} /\ InitLogsError(tasks[t]))
      => last.exc = ""

\* C18: a Task with dependencies starts strictly later than the end_date() of
\* each dependency that is a Task, in every case of the resolution.
C18_Precedence ==
  \A t \in TaskIds :
    (/\ Resolved("start_date", t) /\ last.exc = "" /\ last.val # None
     /\ calendar_changes = 0
     /\ tasks[t].kind = "Task" /\ tasks[t].depends_of # None
     /\ DependenciesResolved(t))
    => \A d \in Range(Val(tasks[t].depends_of)) :
         ~IsMilestone(d) => Val(last.val) > EndOf(d)

\* The shapes of a Task with a duration whose resolution the claims speak of:
\* start and duration, duration and dependencies, stop and duration.
HasDurationShape(t) ==
  /\ tasks[t].kind = "Task" /\ tasks[t].duration # None
  /\ \/ tasks[t].start # None /\ tasks[t].stop = None
     \/ tasks[t].start = None /\ tasks[t].stop = None /\ tasks[t].depends_of # None
     \/ tasks[t].start = None /\ tasks[t].stop # None

\* C19: once a Task with a duration d >= 1 is resolved, there are exactly d
\* working days from its start_date() to its end_date(), both included.
C19_DurationPreserved ==
  \A t \in TaskIds :
    (/\ Resolved("end_date", t) /\ last.exc = "" /\ last.val # None
     /\ calendar_changes = 0
     /\ HasDurationShape(t) /\ Val(tasks[t].duration) >= 1
     /\ cache_start_date[t] # None)
    => WorkingDaysIn(Val(cache_start_date[t]), Val(last.val)) = Val(tasks[t].duration)

\* C20: when start_date() and end_date() of a Task both return a date, the
\* start is not after the end.
C20_StartBeforeEnd ==
  \A t \in TaskIds :
    (/\ Resolved("end_date", t) /\ last.exc = "" /\ last.val # None
     /\ calendar_changes = 0
     /\ tasks[t].kind = "Task"
     /\ cache_start_date[t] # None)
    => Val(cache_start_date[t]) <= Val(last.val)

\* A Task pushed by its dependencies to start after its stop has been resolved.
C20_Witness ==
  \E t \in TaskIds :
    /\ Resolved("end_date", t) /\ last.exc = "" /\ last.val # None
    /\ tasks[t].kind = "Task" /\ tasks[t].stop # None /\ tasks[t].depends_of # None
    /\ cache_start_date[t] # None
    /\ Val(cache_start_date[t]) > Val(tasks[t].stop)

\* C21: add_depends(), given a single object or a list, on a Task built with
\* or without dependencies, leaves depends_of a list: the dependencies it held
\* followed by the added ones in order.
C21_AddDepends ==
  [][\A t \in TaskIds : \A depends_of \in DependsChoices(t) :
       add_depends(t, depends_of) =>
         tasks'[t].depends_of = Some(Held(tasks[t].depends_of) \o Held(depends_of))]_vars

\* u is t built with depends_of=None instead of depends_of=[].
SameButNone(u, t) ==
  /\ tasks[t].depends_of = Some(<<>>)
  /\ tasks[u] = [tasks[t] EXCEPT !.depends_of = None]

\* C22: with two of start, stop and duration, a Task built with depends_of=[]
\* resolves to the start_date() and the end_date() of the same Task built with
\* depends_of=None: what the latter has resolved to, the former returns.
C22_EmptyAsAbsent ==
  \A t, u \in TaskIds :
    (SameButNone(u, t) /\ nonecount(tasks[t]) = 1 /\ last.task = t)
    => /\ (last.op = "start_date" /\ cache_start_date[u] # None)
            => (last.exc = "" /\ last.val = cache_start_date[u])
       /\ (last.op = "end_date" /\ cache_end_date[u] # None)
            => (last.exc = "" /\ last.val = cache_end_date[u])

\* C23: every date that start_date() or end_date() of a Task (with a duration
\* >= 0 or without one) resolves to is a working day of the calendar in force:
\* its weekday is worked and it is no vacation day.
C23_WorkingDays ==
  \A t \in TaskIds :
    (/\ last.op \in {"start_date", "end_date"} /\ last.task = t /\ ~last.hit
     /\ tasks[t].kind = "Task"
     /\ last.exc = "" /\ last.val # None)
    => Working(Val(last.val))

====
